---- MODULE Spec2Model ----
(***************************************************************************)
(* The schedule-photo pipeline of huddle-up-mcp.                           *)
(*                                                                         *)
(*   team-captain-agent  process_schedule_photo  (the Coordinator)         *)
(*   schedule-agent      analyze_schedule_image, create_events             *)
(*   laravel             the event-storage API                             *)
(*                                                                         *)
(* Python dicts are TLA+ records (functions on strings) whose DOMAIN is    *)
(* the set of keys that are present.  A decoded JSON body is wrapped so    *)
(* that a body that is not an object can be told from one that is.         *)
(***************************************************************************)
EXTENDS Integers, Sequences, FiniteSets, TLC

\* ------------------------------------------------------------------------
\* Bounds of the model
\* ------------------------------------------------------------------------

\* Longest candidate-event list an external caller or an analysis payload
\* other than the mock supplies.
MaxEvents == 2

\* ------------------------------------------------------------------------
\* Values
\* ------------------------------------------------------------------------

\* dict.get(k, default)
Get(d, k, default) == IF k \in DOMAIN d THEN d[k] ELSE default

\* d[k] = v on a dict: the key is added or overwritten
SetItem(d, k, v) == (k :> v) @@ d

\* A value that no assignment has produced yet (an unbound local).
None == [none |-> TRUE]

\* Decoded JSON bodies: an object (a dict), or some other JSON value.
JObject(d) == [json |-> "object", val |-> d]
JOther == [json |-> "array"]
\* A body response.json() cannot decode.
Undecodable == [json |-> "invalid"]

IsDict(j) == j.json = "object"

\* str(e) of the faults the model raises
JSONDecodeError == "Expecting value: line 1 column 1 (char 0)"
AttributeError == "'list' object has no attribute 'get'"
IncorrectPadding == "Incorrect padding"
NonAsciiError == "string argument should contain only ASCII characters"
InvalidBase64(n) ==
    "Invalid base64-encoded string: number of data characters (" \o ToString(n)
    \o ") cannot be 1 more than a multiple of 4"

\* datetime.now().isoformat(): the wall clock is not part of the model
Now == "<now>"

\* Responses of an HTTP POST as httpx reports them: the call raises
\* (timeout, connection refused, DNS failure), or a response arrives.
Fault(desc) == [kind |-> "fault", desc |-> desc]
Http(status, text, decoded) ==
    [kind |-> "http", status |-> status, text |-> text, decoded |-> decoded]

\* str(e) of a transport fault.  httpx timeouts carry an empty message.
FaultDescs == {"", "All connection attempts failed"}

\* f"HTTP {response.status_code}: {response.text}"
HttpError(status, text) == "HTTP " \o ToString(status) \o ": " \o text

\* ------------------------------------------------------------------------
\* Inputs
\* ------------------------------------------------------------------------

TeamIds == {5}

\* Candidate events a caller may send; the second already carries a team_id.
EventPool ==
    { [title |-> "Practice"],
      [title |-> "Game", team_id |-> 7] }

EventLists == UNION { [1..n -> EventPool] : n \in 0..MaxEvents }

\* A character outside ASCII (e with acute accent), written by its code
\* point.
NonAsciiChar == "U+00E9"

\* base64 text as a sequence of characters: "a" is in the alphabet, "=" is
\* the pad, "!" is an ASCII character outside the alphabet and NonAsciiChar
\* a character outside ASCII.
FileContents ==
    { <<"a", "a", "a", "a">>, <<"a", "a", "=", "=">>, <<"a", "!", "a", "a">>,
      <<"a", "a", "a">>, <<"a">>, <<"a", "a", "a", "a", "a">>,
      <<"a", "a", "=", "=", "a">>, <<"a", "a", "a", "=", "a", "a">>,
      <<"a", "a", "a", "a", NonAsciiChar>> }

\* The interpreters the Schedule Service may run on.  binascii differs
\* between them in what follows a complete run of pads: CPython 3.11 ends
\* the scan there, CPython 3.13 goes on and takes the pads as skipped when
\* data follows them.
PadRunEndsScan == "CPython 3.11"
PadRunIsSkipped == "CPython 3.13"
Interpreters == {PadRunEndsScan, PadRunIsSkipped}

Photos ==
    { [team_id |-> t, file_content |-> c, file_name |-> "schedule.png",
       file_size |-> 4, mime_type |-> "image/png",
       uploaded_at |-> "2025-01-01T00:00:00Z"] :
      t \in TeamIds, c \in FileContents }

\* ------------------------------------------------------------------------
\* schedule-agent: analyze_schedule_image
\* ------------------------------------------------------------------------

\* binascii.a2b_base64 in non-strict mode, as a scan over the characters:
\* quad is the position in the current group of four, pads counts the pads
\* seen since the last data character and n the data characters seen.  The
\* value is the position the scan ends in (0 when the text decodes) and the
\* number of data characters.  On PadRunEndsScan a complete run of pads ends
\* the scan; on PadRunIsSkipped the scan goes on, and the run completes the
\* group only when no data character follows it.
RECURSIVE B64Scan(_, _, _, _, _, _)
B64Scan(s, i, quad, pads, n, interpreter) ==
    IF i > Len(s) THEN
        [quad |-> IF quad >= 2 /\ quad + pads >= 4 THEN 0 ELSE quad, n |-> n]
    ELSE IF s[i] = "=" THEN
            IF interpreter = PadRunEndsScan /\ quad >= 2 /\ quad + pads + 1 >= 4
            THEN [quad |-> 0, n |-> n]
            ELSE B64Scan(s, i + 1, quad, IF quad >= 2 THEN pads + 1 ELSE pads,
                         n, interpreter)
    ELSE IF s[i] = "a" THEN B64Scan(s, i + 1, (quad + 1) % 4, 0, n + 1, interpreter)
    ELSE B64Scan(s, i + 1, quad, pads, n, interpreter)

\* s.encode('ascii') of base64._bytes_from_decode_data succeeds.
IsAscii(s) == \A i \in 1..Len(s) : s[i] # NonAsciiChar

\* base64.b64decode(data.file_content): the text is first encoded as ASCII,
\* which raises for a character outside ASCII, and then scanned.  The
\* decoded bytes are used only for their length in a log line, so the result
\* is ok or the raised error.
b64decode(s, interpreter) ==
    LET scan == B64Scan(s, 1, 0, 0, 0, interpreter)
    IN  IF ~IsAscii(s) THEN [ok |-> FALSE, error |-> NonAsciiError]
        ELSE IF scan.quad = 0 THEN [ok |-> TRUE]
        ELSE IF scan.quad = 1 THEN [ok |-> FALSE, error |-> InvalidBase64(scan.n)]
        ELSE [ok |-> FALSE, error |-> IncorrectPadding]

mock_events ==
    << [title |-> "Team Practice", date |-> "2025-01-15", time |-> "18:00:00",
        location |-> "Main Field", type |-> "practice",
        description |-> "Regular team practice session"],
       [title |-> "Home Game vs Eagles", date |-> "2025-01-22", time |-> "19:00:00",
        location |-> "Stadium", type |-> "game",
        description |-> "Home game against Eagles"],
       [title |-> "Away Game vs Panthers", date |-> "2025-01-29", time |-> "17:30:00",
        location |-> "Panthers Stadium", type |-> "game",
        description |-> "Away game against Panthers"] >>

call_llm_for_schedule_analysis ==
    [success |-> TRUE, events |-> mock_events, analysis_confidence |-> "0.95"]

analyze_schedule_image(data, interpreter) ==
    LET decoded == b64decode(data.file_content, interpreter)
        analysis_results == call_llm_for_schedule_analysis
        events == Get(analysis_results, "events", <<>>)
    IN  IF ~decoded.ok THEN
            [success |-> FALSE, message |-> "Failed to decode uploaded file",
             error |-> decoded.error]
        ELSE IF ~Get(analysis_results, "success", FALSE) THEN analysis_results
        ELSE [success |-> TRUE,
              message |-> "Schedule image analyzed successfully - "
                          \o ToString(Len(events)) \o " events found",
              events |-> events, total_events |-> Len(events),
              team_id |-> data.team_id, file_processed |-> data.file_name,
              processed_at |-> Now, analysis_method |-> "llm_vision"]

\* The state of one run of analyze_schedule_image before it is invoked.
\* llm_calls keeps the calls of the analysis the run has made and
\* interpreter the interpreter the service runs on.
AnIdle ==
    [pc |-> "idle", data |-> None, interpreter |-> None, llm_calls |-> <<>>,
     result |-> None]

\* analyze_schedule_image is invoked with a ScheduleImageAnalysisRequest.
AnStart(data, interpreter) ==
    [AnIdle EXCEPT !.pc = "decode", !.data = data, !.interpreter = interpreter]

\* The call of the analysis the tool makes for a decoded file.
LlmCall(data) ==
    [target |-> "llm", capability |-> "call_llm_for_schedule_analysis",
     mime_type |-> data.mime_type]

\* AnDecodeStep that goes on to the analysis whatever the decoding did.
AnDecodeStepIgnoresError(run) == [run EXCEPT !.pc = "llm"]

\* The inner try: the file content is decoded; when that raises, the tool
\* returns the failure at once.
AnDecodeStep(run) ==
    LET decoded == b64decode(run.data.file_content, run.interpreter)
    IN  IF ~decoded.ok THEN
            [run EXCEPT !.pc = "done",
                        !.result = [success |-> FALSE,
                                    message |-> "Failed to decode uploaded file",
                                    error |-> decoded.error]]
        ELSE [run EXCEPT !.pc = "llm"]

\* The analysis is called and the tool returns what analyze_schedule_image
\* makes of it.
AnLlmStep(run) ==
    LET analysis_results == call_llm_for_schedule_analysis
        events == Get(analysis_results, "events", <<>>)
        called == [run EXCEPT !.pc = "done",
                              !.llm_calls = Append(@, LlmCall(run.data))]
    IN  IF ~Get(analysis_results, "success", FALSE) THEN
            [called EXCEPT !.result = analysis_results]
        ELSE [called EXCEPT !.result =
                [success |-> TRUE,
                 message |-> "Schedule image analyzed successfully - "
                             \o ToString(Len(events)) \o " events found",
                 events |-> events, total_events |-> Len(events),
                 team_id |-> run.data.team_id,
                 file_processed |-> run.data.file_name,
                 processed_at |-> Now, analysis_method |-> "llm_vision"]]

\* ------------------------------------------------------------------------
\* schedule-agent: create_events and its client of the event-storage API
\* ------------------------------------------------------------------------

\* What the event-storage API may answer to the POST of one event.
LaravelResponses(event_data) ==
    { Fault(d) : d \in FaultDescs }
    \cup { Http(200, "{...}", JObject(SetItem(event_data, "id", 1))),
           Http(201, "{...}", JObject(SetItem(event_data, "id", 1))),
           Http(200, "<html>", Undecodable),
           Http(204, "", Undecodable),
           Http(500, "DB error", Undecodable) }

\* The statuses call_laravel_create_event accepts.
LaravelSuccessStatuses == {200, 201}

\* call_laravel_create_event, from the response of its POST to its result.
call_laravel_create_event(response) ==
    IF response.kind = "fault" THEN
        [success |-> FALSE, error |-> response.desc]
    ELSE IF response.status \in LaravelSuccessStatuses THEN
        IF response.decoded = Undecodable THEN
            [success |-> FALSE, error |-> JSONDecodeError]
        ELSE [success |-> TRUE, event |-> response.decoded]
    ELSE [success |-> FALSE, error |-> HttpError(response.status, response.text)]

\* The request call_laravel_create_event sends for one event.
LaravelPost(event_data) ==
    [target |-> "laravel", team |-> event_data["team_id"], json |-> event_data]

\* The state of one run of create_events before it is invoked.  input keeps
\* the events as they were received, posts the requests sent so far, answers
\* what came back for each and inflight the number of them not yet answered.
CeIdle ==
    [pc |-> "idle", team_id |-> 0, input |-> <<>>, events |-> <<>>, i |-> 1,
     created_events |-> <<>>, failed_events |-> <<>>,
     posts |-> <<>>, answers |-> <<>>, inflight |-> 0, result |-> None]

\* create_events is invoked with an EventCreationRequest.
CeStart(data) ==
    [CeIdle EXCEPT !.pc = "loop", !.team_id = data.team_id,
                   !.input = data.events, !.events = data.events]

\* CeAttemptStep that keeps a team id the event already carries.
CeAttemptStepKeepsTeam(run) ==
    LET event_data == IF "team_id" \in DOMAIN run.events[run.i]
                      THEN run.events[run.i]
                      ELSE SetItem(run.events[run.i], "team_id", run.team_id)
    IN  [run EXCEPT !.pc = "posting",
                    !.events[run.i] = event_data,
                    !.posts = Append(@, LaravelPost(event_data)),
                    !.inflight = @ + 1]

\* One iteration of the loop up to the await: the team id is written into
\* the event and the event is posted.
CeAttemptStep(run) ==
    LET event_data == SetItem(run.events[run.i], "team_id", run.team_id)
    IN  [run EXCEPT !.pc = "posting",
                    !.events[run.i] = event_data,
                    !.posts = Append(@, LaravelPost(event_data)),
                    !.inflight = @ + 1]

\* CeClassifyStep that puts a created record in front of the earlier ones.
CeClassifyStepPrepends(run, response) ==
    LET event_data == run.events[run.i]
        result == call_laravel_create_event(response)
        next == [run EXCEPT !.pc = "loop", !.i = @ + 1, !.inflight = @ - 1,
                            !.answers = Append(@, response)]
    IN  IF Get(result, "success", FALSE) THEN
            [next EXCEPT !.created_events = <<Get(result, "event", None)>> \o @]
        ELSE
            [next EXCEPT !.failed_events =
                Append(@, [event_data |-> event_data,
                           error |-> Get(result, "error", "Unknown error")])]

\* The rest of the iteration: the outcome of the POST is classified.
CeClassifyStep(run, response) ==
    LET event_data == run.events[run.i]
        result == call_laravel_create_event(response)
        next == [run EXCEPT !.pc = "loop", !.i = @ + 1, !.inflight = @ - 1,
                            !.answers = Append(@, response)]
    IN  IF Get(result, "success", FALSE) THEN
            [next EXCEPT !.created_events = Append(@, Get(result, "event", None))]
        ELSE
            [next EXCEPT !.failed_events =
                Append(@, [event_data |-> event_data,
                           error |-> Get(result, "error", "Unknown error")])]

\* CeResult with the short result of the Coordinator for an empty list.
CeResultShortForEmpty(run) ==
    IF run.events = <<>> THEN [success |-> TRUE, events_created |-> 0]
    ELSE [success |-> TRUE,
          message |-> "Event creation completed: "
                      \o ToString(Len(run.created_events)) \o " created, "
                      \o ToString(Len(run.failed_events)) \o " failed",
          events_created |-> Len(run.created_events),
          events_failed |-> Len(run.failed_events),
          created_events |-> run.created_events,
          failed_events |-> run.failed_events,
          team_id |-> run.team_id,
          processed_at |-> Now]

\* CeResult that reports success only when an event was created.
CeResultFailsWhenNoneCreated(run) ==
    [success |-> (run.created_events # <<>> \/ run.events = <<>>),
     message |-> "Event creation completed: " \o ToString(Len(run.created_events))
                 \o " created, " \o ToString(Len(run.failed_events)) \o " failed",
     events_created |-> Len(run.created_events),
     events_failed |-> Len(run.failed_events),
     created_events |-> run.created_events,
     failed_events |-> run.failed_events,
     team_id |-> run.team_id,
     processed_at |-> Now]

\* The result create_events returns after its loop.
CeResult(run) ==
    [success |-> TRUE,
     message |-> "Event creation completed: " \o ToString(Len(run.created_events))
                 \o " created, " \o ToString(Len(run.failed_events)) \o " failed",
     events_created |-> Len(run.created_events),
     events_failed |-> Len(run.failed_events),
     created_events |-> run.created_events,
     failed_events |-> run.failed_events,
     team_id |-> run.team_id,
     processed_at |-> Now]

\* CeHasNext of a loop that stops at the first failure.
CeHasNextStopsOnFailure(run) ==
    run.i <= Len(run.events) /\ run.failed_events = <<>>

\* Whether the loop has another event to attempt.
CeHasNext(run) == run.i <= Len(run.events)

\* ------------------------------------------------------------------------
\* team-captain-agent: the delegation clients
\* ------------------------------------------------------------------------

\* The status the clients of the Schedule Service accept.
ClientSuccessStatus == 200

\* call_schedule_agent_analyze_image, from the response of its POST to the
\* value it returns.  A decoded body is returned as it is.
call_schedule_agent_analyze_image(response) ==
    IF response.kind = "fault" THEN
        JObject([success |-> FALSE, error |-> response.desc])
    ELSE IF response.status = ClientSuccessStatus THEN
        IF response.decoded = Undecodable THEN
            JObject([success |-> FALSE, error |-> JSONDecodeError])
        ELSE response.decoded
    ELSE JObject([success |-> FALSE,
                  error |-> HttpError(response.status, response.text)])

\* call_schedule_agent_create_events accepting every 2xx status.
call_schedule_agent_create_events_2xx(response) ==
    IF response.kind = "fault" THEN
        JObject([success |-> FALSE, error |-> response.desc])
    ELSE IF response.status \in 200..299 THEN
        IF response.decoded = Undecodable THEN
            JObject([success |-> FALSE, error |-> JSONDecodeError])
        ELSE response.decoded
    ELSE JObject([success |-> FALSE,
                  error |-> HttpError(response.status, response.text)])

\* call_schedule_agent_create_events, likewise.
call_schedule_agent_create_events(response) ==
    IF response.kind = "fault" THEN
        JObject([success |-> FALSE, error |-> response.desc])
    ELSE IF response.status = ClientSuccessStatus THEN
        IF response.decoded = Undecodable THEN
            JObject([success |-> FALSE, error |-> JSONDecodeError])
        ELSE response.decoded
    ELSE JObject([success |-> FALSE,
                  error |-> HttpError(response.status, response.text)])

\* The requests the two clients send.
AnalyzeCall(data) ==
    [target |-> "schedule-agent", capability |-> "analyze_schedule_image",
     json |-> data]
CreateCall(data) ==
    [target |-> "schedule-agent", capability |-> "create_events", json |-> data]

\* ------------------------------------------------------------------------
\* team-captain-agent: process_schedule_photo
\* ------------------------------------------------------------------------

\* An exception travelling up the call stack, with its str(e).
Raise(e) == [raised |-> e]
IsRaise(outcome) == "raised" \in DOMAIN outcome

\* AnalysisFailureResult that reports a fixed error text.
AnalysisFailureResultUnknownError(data, schedule_analysis) ==
    [success |-> FALSE,
     message |-> "Failed to analyze schedule image",
     error |-> "Unknown error",
     team_id |-> data.team_id]

\* The result returned when the analysis result reports no success.
AnalysisFailureResult(data, schedule_analysis) ==
    [success |-> FALSE,
     message |-> "Failed to analyze schedule image",
     error |-> Get(schedule_analysis, "error", "Unknown error"),
     team_id |-> data.team_id]

\* CreationFailureResult without the events already parsed.
CreationFailureResultDropsEvents(data, event_creation, events) ==
    [success |-> FALSE,
     message |-> "Failed to create events from schedule",
     error |-> Get(event_creation, "error", "Unknown error"),
     team_id |-> data.team_id]

\* The result returned when the creation result reports no success.
CreationFailureResult(data, event_creation, events) ==
    [success |-> FALSE,
     message |-> "Failed to create events from schedule",
     error |-> Get(event_creation, "error", "Unknown error"),
     parsed_events |-> events,
     team_id |-> data.team_id]

\* The result of step 3.
SuccessResult(data, events, event_creation) ==
    [success |-> TRUE,
     message |-> "Schedule processed successfully - " \o ToString(Len(events))
                 \o " events found",
     analysis_results |->
        [events_found |-> Len(events),
         events_created |-> Get(event_creation, "events_created", 0),
         file_processed |-> data.file_name,
         file_size |-> data.file_size,
         processing_completed_at |-> data.uploaded_at],
     parsed_events |-> events,
     team_id |-> data.team_id]

\* process_schedule_photo without the enclosing try: the exception leaves
\* the tool.
ExceptionPropagates(data, outcome) == outcome

\* The handler of the enclosing try: any exception becomes a result.
ExceptionResult(data, outcome) ==
    [success |-> FALSE,
     message |-> "Failed to process schedule photo: " \o outcome.raised,
     team_id |-> data.team_id]

\* AfterAnalysis without the test of the success flag.
AfterAnalysisIgnoresFailure(data, schedule_analysis) ==
    IF ~IsDict(schedule_analysis) THEN Raise(AttributeError)
    ELSE LET events == Get(schedule_analysis.val, "events", <<>>)
         IN  IF events # <<>> THEN [create |-> events]
             ELSE [return |-> SuccessResult(data, events,
                                 [success |-> TRUE, events_created |-> 0]),
                   failed |-> FALSE]

\* AfterAnalysis without the test for an empty event list.
AfterAnalysisAlwaysCreates(data, schedule_analysis) ==
    IF ~IsDict(schedule_analysis) THEN Raise(AttributeError)
    ELSE IF ~Get(schedule_analysis.val, "success", FALSE) THEN
        [return |-> AnalysisFailureResult(data, schedule_analysis.val),
         failed |-> TRUE]
    ELSE [create |-> Get(schedule_analysis.val, "events", <<>>)]

\* AfterAnalysis that treats an empty event list as a failure.
AfterAnalysisEmptyIsFailure(data, schedule_analysis) ==
    IF ~IsDict(schedule_analysis) THEN Raise(AttributeError)
    ELSE IF ~Get(schedule_analysis.val, "success", FALSE) THEN
        [return |-> AnalysisFailureResult(data, schedule_analysis.val),
         failed |-> TRUE]
    ELSE LET events == Get(schedule_analysis.val, "events", <<>>)
         IN  IF events # <<>> THEN [create |-> events]
             ELSE [return |-> AnalysisFailureResult(data, schedule_analysis.val),
                   failed |-> TRUE]

\* The code between the return of the analyze call and the create call: the
\* outcome is a raised exception, a returned result, or the decision to go on
\* to the creation step with the events found.
AfterAnalysis(data, schedule_analysis) ==
    IF ~IsDict(schedule_analysis) THEN Raise(AttributeError)
    ELSE IF ~Get(schedule_analysis.val, "success", FALSE) THEN
        [return |-> AnalysisFailureResult(data, schedule_analysis.val),
         failed |-> TRUE]
    ELSE LET events == Get(schedule_analysis.val, "events", <<>>)
         IN  IF events # <<>> THEN [create |-> events]
             ELSE [return |-> SuccessResult(data, events,
                                 [success |-> TRUE, events_created |-> 0]),
                   failed |-> FALSE]

\* The code after the return of the create call, up to step 3.
AfterCreation(data, events, event_creation) ==
    IF ~IsDict(event_creation) THEN Raise(AttributeError)
    ELSE IF ~Get(event_creation.val, "success", FALSE) THEN
        [return |-> CreationFailureResult(data, event_creation.val, events),
         failed |-> TRUE]
    ELSE [assemble |-> event_creation.val]

\* One request of the Coordinator before it arrives.  calls keeps the
\* requests sent downstream and responses what came back for each.
ReqIdle ==
    [state |-> "NONE", data |-> None, schedule_analysis |-> None,
     events |-> <<>>, event_creation |-> None, result |-> None,
     calls |-> <<>>, responses |-> <<>>]

\* ------------------------------------------------------------------------
\* What the Schedule Service may answer to the Coordinator
\* ------------------------------------------------------------------------

\* Answers that do not come from a handler of the Schedule Service: the
\* transport fails, or something on the way answers in its place.
TransportResponses ==
    { Fault(d) : d \in FaultDescs }
    \cup { Http(500, "Internal Server Error", Undecodable),
           Http(201, "{...}", JObject([success |-> TRUE, events |-> <<>>,
                                       events_created |-> 0])),
           Http(200, "<html>", Undecodable),
           Http(200, "[]", JOther) }

\* Results an analysis step other than the mock may return.
AnalysisPayloads ==
    { [success |-> TRUE, events |-> l] : l \in EventLists }
    \cup { [success |-> TRUE, message |-> "no events key"],
           [message |-> "no success key", events |-> <<[title |-> "Practice"]>>],
           [success |-> FALSE, message |-> "no error key"],
           [success |-> FALSE, error |-> "LLM unavailable",
            events |-> <<[title |-> "Practice"]>>] }

\* Answers to the analyze call other than the result of a finished run of
\* analyze_schedule_image.
AnalyzeResponses(data) ==
    TransportResponses
    \cup { Http(200, "{...}", JObject(p)) : p \in AnalysisPayloads }

\* Results of a creation step that did not run create_events to its end.
CreationPayloads(data) ==
    { [success |-> FALSE, message |-> "Failed to create events: boom",
       team_id |-> data.team_id],
      [message |-> "no success key", events_created |-> 1],
      [success |-> TRUE, message |-> "no events_created key"] }

CreateResponses(data) ==
    TransportResponses
    \cup { Http(200, "{...}", JObject(p)) : p \in CreationPayloads(data) }

\* ------------------------------------------------------------------------
\* State
\* ------------------------------------------------------------------------

VARIABLES
    req,    \* the requests of the Coordinator, by request id
    ce,     \* the runs of create_events, by run id
    an,     \* the runs of analyze_schedule_image, by run id
    health  \* the last probe of a liveness endpoint and its answer

vars == <<req, ce, an, health>>

\* The run of a tool of the Schedule Service an external caller invokes
\* directly; the run serving the call of request r has id r.
Direct == 0

Init ==
    /\ req = [r \in {1} |-> ReqIdle]
    /\ ce = [c \in {Direct, 1} |-> CeIdle]
    /\ an = [a \in {Direct, 1} |-> AnIdle]
    /\ health = None

\* Nothing has been asked of either service yet.
Quiet ==
    /\ \A r \in DOMAIN req : req[r].state = "NONE"
    /\ \A c \in DOMAIN ce : ce[c].pc = "idle"
    /\ \A a \in DOMAIN an : an[a].pc = "idle"

\* ------------------------------------------------------------------------
\* Actions of the Coordinator
\* ------------------------------------------------------------------------

\* process_schedule_photo is invoked.
Receive(r, data) ==
    /\ req[r].state = "NONE"
    /\ req' = [req EXCEPT ![r].state = "RECEIVED", ![r].data = data]
    /\ UNCHANGED <<ce, an, health>>

\* Step 1: the analyze call is issued.
CallAnalyze(r) ==
    /\ req[r].state = "RECEIVED"
    /\ req' = [req EXCEPT ![r].state = "ANALYZING",
                          ![r].calls = Append(@, AnalyzeCall(req[r].data))]
    /\ UNCHANGED <<ce, an, health>>

\* AnalyzeReturnStep that sends only the first event in the create call.
AnalyzeReturnStepSendsFirstEvent(q, schedule_analysis) ==
    LET outcome == AfterAnalysis(q.data, schedule_analysis)
        q1 == [q EXCEPT !.schedule_analysis = schedule_analysis]
    IN  IF IsRaise(outcome) THEN
            [q1 EXCEPT !.state = "FAILED",
                       !.result = ExceptionResult(q.data, outcome)]
        ELSE IF "return" \in DOMAIN outcome THEN
            [q1 EXCEPT !.state = IF outcome.failed THEN "FAILED" ELSE "DONE",
                       !.result = outcome.return]
        ELSE
            [q1 EXCEPT !.state = "CREATING",
                       !.events = outcome.create,
                       !.calls = Append(@, CreateCall(
                            [team_id |-> q.data.team_id,
                             events |-> SubSeq(outcome.create, 1, 1)]))]

\* The request after the analyze call has returned schedule_analysis.
AnalyzeReturnStep(q, schedule_analysis) ==
    LET outcome == AfterAnalysis(q.data, schedule_analysis)
        q1 == [q EXCEPT !.schedule_analysis = schedule_analysis]
    IN  IF IsRaise(outcome) THEN
            [q1 EXCEPT !.state = "FAILED",
                       !.result = ExceptionResult(q.data, outcome)]
        ELSE IF "return" \in DOMAIN outcome THEN
            [q1 EXCEPT !.state = IF outcome.failed THEN "FAILED" ELSE "DONE",
                       !.result = outcome.return]
        ELSE
            [q1 EXCEPT !.state = "CREATING",
                       !.events = outcome.create,
                       !.calls = Append(@, CreateCall(
                            [team_id |-> q.data.team_id,
                             events |-> outcome.create]))]

\* The analyze call returns with the given response: the request fails, is
\* done without events, or issues the create call.
AnalyzeReturnWith(r, response) ==
    /\ req[r].state = "ANALYZING"
    /\ req' = [req EXCEPT ![r] =
                 AnalyzeReturnStep([@ EXCEPT !.responses = Append(@, response)],
                                   call_schedule_agent_analyze_image(response))]
    /\ UNCHANGED <<ce, an, health>>

\* The analyze call returns an answer that is not the result of a finished
\* run of analyze_schedule_image.
AnalyzeReturn(r) ==
    /\ req[r].state = "ANALYZING"
    /\ \E response \in AnalyzeResponses(req[r].data) : AnalyzeReturnWith(r, response)

\* CreateReturnStep with one more attempt after a failed create call.
CreateReturnStepRetries(q, event_creation) ==
    LET outcome == AfterCreation(q.data, q.events, event_creation)
        q1 == [q EXCEPT !.event_creation = event_creation]
    IN  IF IsRaise(outcome) THEN
            [q1 EXCEPT !.state = "FAILED",
                       !.result = ExceptionResult(q.data, outcome)]
        ELSE IF "return" \in DOMAIN outcome THEN
            IF Len(q.calls) < 3 THEN
                [q1 EXCEPT !.calls = Append(@, q.calls[Len(q.calls)])]
            ELSE [q1 EXCEPT !.state = "FAILED", !.result = outcome.return]
        ELSE [q1 EXCEPT !.state = "ASSEMBLING"]

\* The request after the create call has returned event_creation.
CreateReturnStep(q, event_creation) ==
    LET outcome == AfterCreation(q.data, q.events, event_creation)
        q1 == [q EXCEPT !.event_creation = event_creation]
    IN  IF IsRaise(outcome) THEN
            [q1 EXCEPT !.state = "FAILED",
                       !.result = ExceptionResult(q.data, outcome)]
        ELSE IF "return" \in DOMAIN outcome THEN
            [q1 EXCEPT !.state = "FAILED", !.result = outcome.return]
        ELSE [q1 EXCEPT !.state = "ASSEMBLING"]

\* The create call returns with the given response.
CreateReturnWith(r, response) ==
    /\ req[r].state = "CREATING"
    /\ req' = [req EXCEPT ![r] =
                 CreateReturnStep([@ EXCEPT !.responses = Append(@, response)],
                                  call_schedule_agent_create_events(response))]
    /\ UNCHANGED <<ce, an, health>>

\* The create call returns an answer that is not the result of a finished
\* run of create_events.
CreateReturn(r) ==
    /\ req[r].state = "CREATING"
    /\ \E response \in CreateResponses(req[r].data) : CreateReturnWith(r, response)

\* CreateReturnFromService that hands a request the result of whichever run
\* of create_events has finished.
CreateReturnFromAnyService(r) ==
    /\ req[r].state = "CREATING"
    /\ \E c \in DOMAIN ce :
        /\ ce[c].pc = "done"
        /\ CreateReturnWith(r, Http(200, "{...}", JObject(ce[c].result)))

\* The create call returns the result of the run of create_events it started.
CreateReturnFromService(r) ==
    /\ req[r].state = "CREATING"
    /\ ce[r].pc = "done"
    /\ CreateReturnWith(r, Http(200, "{...}", JObject(ce[r].result)))

\* Step 3: the result is assembled and returned.
Assemble(r) ==
    /\ req[r].state = "ASSEMBLING"
    /\ req' = [req EXCEPT ![r].state = "DONE",
                          ![r].result = SuccessResult(req[r].data, req[r].events,
                                                      req[r].event_creation.val)]
    /\ UNCHANGED <<ce, an, health>>

\* The analyze call returns the result of the run of analyze_schedule_image
\* it started.
AnalyzeReturnFromService(r) ==
    /\ req[r].state = "ANALYZING"
    /\ an[r].pc = "done"
    /\ LET response == Http(200, "{...}", JObject(an[r].result))
       IN  req' = [req EXCEPT ![r] =
                     AnalyzeReturnStep([@ EXCEPT !.responses = Append(@, response)],
                                       call_schedule_agent_analyze_image(response))]
    /\ UNCHANGED <<ce, an, health>>

\* ------------------------------------------------------------------------
\* Actions of the Schedule Service
\* ------------------------------------------------------------------------

\* The analyze call of request r reaches the Schedule Service.
ServeAnalyze(r) ==
    /\ req[r].state = "ANALYZING"
    /\ an[r].pc = "idle"
    /\ \E interpreter \in Interpreters :
          an' = [an EXCEPT ![r] = AnStart(req[r].calls[Len(req[r].calls)].json,
                                          interpreter)]
    /\ UNCHANGED <<req, ce, health>>

\* An external caller invokes analyze_schedule_image.
AnalyzeImage(data) ==
    /\ an[Direct].pc = "idle"
    /\ \E interpreter \in Interpreters :
          an' = [an EXCEPT ![Direct] = AnStart(data, interpreter)]
    /\ UNCHANGED <<req, ce, health>>

\* The uploaded file is decoded.
AnDecode(a) ==
    /\ an[a].pc = "decode"
    /\ an' = [an EXCEPT ![a] = AnDecodeStep(@)]
    /\ UNCHANGED <<req, ce, health>>

\* The decoded file is analysed and the tool returns.
AnLlm(a) ==
    /\ an[a].pc = "llm"
    /\ an' = [an EXCEPT ![a] = AnLlmStep(@)]
    /\ UNCHANGED <<req, ce, health>>

\* The create call of request r reaches the Schedule Service.
ServeCreate(r) ==
    /\ req[r].state = "CREATING"
    /\ ce[r].pc = "idle"
    /\ ce' = [ce EXCEPT ![r] = CeStart(req[r].calls[Len(req[r].calls)].json)]
    /\ UNCHANGED <<req, an, health>>

\* An external caller invokes create_events.
CreateEvents(team_id, events) ==
    /\ ce[Direct].pc = "idle"
    /\ ce' = [ce EXCEPT ![Direct] = CeStart([team_id |-> team_id, events |-> events])]
    /\ UNCHANGED <<req, an, health>>

\* The loop takes the next event and posts it.
CeAttempt(c) ==
    /\ ce[c].pc = "loop"
    /\ CeHasNext(ce[c])
    /\ ce' = [ce EXCEPT ![c] = CeAttemptStep(@)]
    /\ UNCHANGED <<req, an, health>>

\* The event-storage API answers with the given response and the outcome is
\* classified.
CeClassifyWith(c, response) ==
    /\ ce[c].pc = "posting"
    /\ ce' = [ce EXCEPT ![c] = CeClassifyStep(@, response)]
    /\ UNCHANGED <<req, an, health>>

\* The event-storage API answers.
CeClassify(c) ==
    /\ ce[c].pc = "posting"
    /\ \E response \in LaravelResponses(ce[c].events[ce[c].i]) :
          CeClassifyWith(c, response)

\* The loop is over and create_events returns.
CeFinish(c) ==
    /\ ce[c].pc = "loop"
    /\ ~CeHasNext(ce[c])
    /\ ce' = [ce EXCEPT ![c].pc = "done", ![c].result = CeResult(ce[c])]
    /\ UNCHANGED <<req, an, health>>

\* ------------------------------------------------------------------------
\* Specification: one external call, to the Coordinator or to a tool of the
\* Schedule Service
\* ------------------------------------------------------------------------

Next ==
    \/ \E r \in DOMAIN req, data \in Photos : Quiet /\ Receive(r, data)
    \/ \E r \in DOMAIN req : CallAnalyze(r)
    \/ \E r \in DOMAIN req : AnalyzeReturn(r)
    \/ \E r \in DOMAIN req : AnalyzeReturnFromService(r)
    \/ \E r \in DOMAIN req : ServeAnalyze(r)
    \/ \E data \in Photos : Quiet /\ AnalyzeImage(data)
    \/ \E a \in DOMAIN an : AnDecode(a)
    \/ \E a \in DOMAIN an : AnLlm(a)
    \/ \E r \in DOMAIN req : ServeCreate(r)
    \/ \E r \in DOMAIN req : CreateReturn(r)
    \/ \E r \in DOMAIN req : CreateReturnFromService(r)
    \/ \E r \in DOMAIN req : Assemble(r)
    \/ \E t \in TeamIds, events \in EventLists : Quiet /\ CreateEvents(t, events)
    \/ \E c \in DOMAIN ce : CeAttempt(c)
    \/ \E c \in DOMAIN ce : CeClassify(c)
    \/ \E c \in DOMAIN ce : CeFinish(c)

Spec == Init /\ [][Next]_vars

\* ------------------------------------------------------------------------
\* Specification: requests of the Coordinator running concurrently
\* ------------------------------------------------------------------------

\* Number of requests in flight at once.
MaxRequests == 2

ConcReqs == 1..MaxRequests

\* The photo of request r: each request is for a team of its own.
ConcPhoto(r) ==
    [team_id |-> 4 + r, file_content |-> <<"a", "a", "a", "a">>,
     file_name |-> "schedule.png", file_size |-> 4, mime_type |-> "image/png",
     uploaded_at |-> "2025-01-01T00:00:00Z"]

\* The answers to the analyze call: the transport fails, the analysis finds
\* one event, the analysis finds none.
ConcAnalyzeResponses ==
    { Fault("All connection attempts failed"),
      Http(200, "{...}", JObject([success |-> TRUE,
                                  events |-> <<[title |-> "Practice"]>>])),
      Http(200, "{...}", JObject([success |-> TRUE, events |-> <<>>])) }

\* The create call times out.
ConcCreateTimeout == Fault("")

\* The answers of the event-storage API: created, rejected.
ConcLaravelResponses(event_data) ==
    { Http(201, "{...}", JObject(SetItem(event_data, "id", 1))),
      Http(500, "DB error", Undecodable) }

InitConc ==
    /\ req = [r \in ConcReqs |-> ReqIdle]
    /\ ce = [c \in {Direct} \cup ConcReqs |-> CeIdle]
    /\ an = [a \in {Direct} \cup ConcReqs |-> AnIdle]
    /\ health = None

\* The steps of request r that the event loop takes once the call the
\* request awaits has returned or timed out.
CoordinatorStep(r) ==
    \/ CallAnalyze(r)
    \/ \E response \in ConcAnalyzeResponses : AnalyzeReturnWith(r, response)
    \/ CreateReturnWith(r, ConcCreateTimeout)
    \/ CreateReturnFromService(r)
    \/ Assemble(r)

\* The steps of the run of create_events serving request r.
ServiceStep(r) ==
    \/ ServeCreate(r)
    \/ CeAttempt(r)
    \/ /\ ce[r].pc = "posting"
       /\ \E response \in ConcLaravelResponses(ce[r].events[ce[r].i]) :
             CeClassifyWith(r, response)
    \/ CeFinish(r)

NextConc ==
    \/ \E r \in ConcReqs : Receive(r, ConcPhoto(r))
    \/ \E r \in ConcReqs : CoordinatorStep(r)
    \/ \E r \in ConcReqs : ServiceStep(r)

\* Every delegated call returns or times out, and the event loop resumes the
\* request that awaited it.
SpecConc ==
    /\ InitConc
    /\ [][NextConc]_vars
    /\ \A r \in ConcReqs : WF_vars(CoordinatorStep(r))

\* ------------------------------------------------------------------------
\* Specification: the services and their liveness endpoints
\* ------------------------------------------------------------------------

Services == {"attendance-agent", "schedule-agent", "team-captain-agent"}

\* The HTTP routes each service's module registers on its app.
Routes(service) ==
    IF service = "attendance-agent" THEN {"/health"} ELSE {}

\* The handler of GET /health of the Attendance service.
health_check == [status |-> "healthy", service |-> "attendance-agent"]

\* The answer to a request for a path no handler is registered for.
NoRoute == [no_route |-> TRUE]

\* GET path on the service.
HttpGet(service, path) ==
    IF path \in Routes(service) THEN health_check ELSE NoRoute

\* The liveness endpoint of the service is probed; the pipeline is left as
\* it is.
HealthProbe(service) ==
    /\ health' = [service |-> service, response |-> HttpGet(service, "/health")]
    /\ UNCHANGED <<req, ce, an>>

\* The services are probed while requests are in flight.
NextHealth ==
    \/ \E service \in Services : HealthProbe(service)
    \/ NextConc

SpecHealth == InitConc /\ [][NextHealth]_vars

\* ------------------------------------------------------------------------
\* Properties
\* ------------------------------------------------------------------------

\* The requests the Coordinator has sent to a capability of the Schedule
\* Service.
CallsTo(q, capability) ==
    { k \in 1..Len(q.calls) : q.calls[k].capability = capability }

\* The analyze call of the request has returned a result that does not
\* report success.
AnalysisStepFailed(q) ==
    /\ q.schedule_analysis # None
    /\ \/ ~IsDict(q.schedule_analysis)
       \/ ~Get(q.schedule_analysis.val, "success", FALSE)

\* C1: when the analysis step fails, the result of process_schedule_photo
\* has success = false, parsed_events is absent or empty, and the create
\* capability is not invoked for the request.
C1_AnalysisFailureIsTerminal ==
    \A r \in DOMAIN req :
        AnalysisStepFailed(req[r]) =>
            /\ req[r].result # None
            /\ Get(req[r].result, "success", TRUE) = FALSE
            /\ Get(req[r].result, "parsed_events", <<>>) = <<>>
            /\ CallsTo(req[r], "create_events") = {}
            /\ ce[r].pc = "idle"

C1_Witness ==
    \E r \in DOMAIN req :
        /\ AnalysisStepFailed(req[r])
        /\ IsDict(req[r].schedule_analysis)
        /\ Get(req[r].schedule_analysis.val, "events", <<>>) # <<>>
        /\ req[r].state = "FAILED"

\* The create call of the request has returned a failure result.
CreationCallErred(q) ==
    /\ q.event_creation # None
    /\ IsDict(q.event_creation)
    /\ ~Get(q.event_creation.val, "success", FALSE)

\* C2: when the analysis step succeeded with events and the create call
\* returns a failure result, the result of process_schedule_photo has
\* success = false and parsed_events is the whole list of the analysis step.
C2_CreationFailureKeepsParsedEvents ==
    \A r \in DOMAIN req :
        CreationCallErred(req[r]) =>
            /\ req[r].result # None
            /\ Get(req[r].result, "success", TRUE) = FALSE
            /\ "parsed_events" \in DOMAIN req[r].result
            /\ req[r].result["parsed_events"] = req[r].schedule_analysis.val["events"]
            /\ req[r].result["parsed_events"] # <<>>

C2_Witness ==
    \E r \in DOMAIN req :
        /\ CreationCallErred(req[r])
        /\ Len(req[r].schedule_analysis.val["events"]) >= 2
        /\ req[r].responses[2].kind = "fault"

\* The event of the input list an entry of failed_events was made from: the
\* entry holds that event with the team id of the request written into it.
RetainsEventData(run, entry) ==
    \E j \in 1..Len(run.input) :
        entry.event_data = SetItem(run.input[j], "team_id", run.team_id)

\* The part of C3 that the code keeps: the counts add up to the size of the
\* batch and every failed entry holds the data of its event.
C3_CountsAddUp ==
    \A c \in DOMAIN ce :
        ce[c].pc = "done" =>
            /\ ce[c].result.events_created + ce[c].result.events_failed
                    = Len(ce[c].input)
            /\ \A k \in 1..Len(ce[c].result.failed_events) :
                    RetainsEventData(ce[c], ce[c].result.failed_events[k])

\* C3: for every batch of N events and every pattern of outcomes,
\* events_created + events_failed = N and every entry of failed_events holds
\* the data of its event and a non-empty error string.
C3_FailedEntriesCarryAnError ==
    \A c \in DOMAIN ce :
        ce[c].pc = "done" =>
            /\ ce[c].result.events_created + ce[c].result.events_failed
                    = Len(ce[c].input)
            /\ \A k \in 1..Len(ce[c].result.failed_events) :
                    /\ RetainsEventData(ce[c], ce[c].result.failed_events[k])
                    /\ ce[c].result.failed_events[k].error # ""

\* The create call of the request returned the result of a creation step in
\* which some events failed.
SomeEventsFailed(q) ==
    /\ q.event_creation # None
    /\ IsDict(q.event_creation)
    /\ Get(q.event_creation.val, "success", FALSE)
    /\ Get(q.event_creation.val, "failed_events", <<>>) # <<>>

\* C4: when events fail individually and the create call succeeds, the
\* result of process_schedule_photo has success = true and holds the failed
\* records with their errors.
C4_FailuresAreEmbedded ==
    \A r \in DOMAIN req :
        (SomeEventsFailed(req[r]) /\ req[r].state = "DONE") =>
            /\ Get(req[r].result, "success", FALSE)
            /\ \/ Get(req[r].result, "failed_events", <<>>)
                    = req[r].event_creation.val["failed_events"]
               \/ Get(req[r].result["analysis_results"], "failed_events", <<>>)
                    = req[r].event_creation.val["failed_events"]

\* The part of C4 that the code keeps: the pipeline reports success.
C4_PartialFailureIsSuccess ==
    \A r \in DOMAIN req :
        (SomeEventsFailed(req[r]) /\ req[r].state = "DONE") =>
            /\ Get(req[r].result, "success", FALSE)
            /\ req[r].result["analysis_results"]["events_created"]
                    = req[r].event_creation.val["events_created"]

\* The value the delegation client returned for the k-th call of a request:
\* the analyze call is the first and the create call the second.
ClientResult(q, k) == IF k = 1 THEN q.schedule_analysis ELSE q.event_creation

Is2xx(status) == status \in 200..299

FailureWith(error) == JObject([success |-> FALSE, error |-> error])

\* C5 as stated: every 2xx response yields the decoded payload, every other
\* status a failure carrying status and body, every transport fault a failure
\* carrying the description of the fault.
C5_Any2xxIsSuccess ==
    \A r \in DOMAIN req : \A k \in 1..Len(req[r].responses) :
        LET response == req[r].responses[k]
            result == ClientResult(req[r], k)
        IN  IF response.kind = "fault" THEN result = FailureWith(response.desc)
            ELSE IF ~Is2xx(response.status) THEN
                result = FailureWith(HttpError(response.status, response.text))
            ELSE response.decoded # Undecodable => result = response.decoded

\* C5, amended: status 200 with a decodable body yields the decoded payload
\* itself; every other status, the other 2xx included, yields a failure
\* carrying status and body; a transport fault, or a body of a 200 response
\* that cannot be decoded, yields a failure carrying the description of the
\* fault.
C5_Only200IsSuccess ==
    \A r \in DOMAIN req : \A k \in 1..Len(req[r].responses) :
        LET response == req[r].responses[k]
            result == ClientResult(req[r], k)
        IN  IF response.kind = "fault" THEN result = FailureWith(response.desc)
            ELSE IF response.status # 200 THEN
                result = FailureWith(HttpError(response.status, response.text))
            ELSE IF response.decoded = Undecodable THEN
                result = FailureWith(JSONDecodeError)
            ELSE result = response.decoded

C5_Witness ==
    \E r \in DOMAIN req :
        /\ Len(req[r].responses) = 2
        /\ req[r].responses[2].kind = "http"
        /\ req[r].responses[2].status = 201
        /\ req[r].responses[2].decoded # Undecodable
        /\ req[r].responses[1].kind = "http"
        /\ req[r].responses[1].status = 200

\* A value a tool returns to its caller: a dict with a Boolean success.
IsToolResult(result) ==
    /\ "success" \in DOMAIN result
    /\ result["success"] \in BOOLEAN

\* C6: whatever comes back from downstream, process_schedule_photo,
\* analyze_schedule_image and create_events each return a result with a
\* Boolean success field; no exception leaves the tool.
C6_NoExceptionLeavesATool ==
    /\ \A r \in DOMAIN req :
        /\ req[r].state \in {"DONE", "FAILED"} => IsToolResult(req[r].result)
        /\ req[r].data # None =>
                \A interpreter \in Interpreters :
                    IsToolResult(analyze_schedule_image(req[r].data, interpreter))
    /\ \A c \in DOMAIN ce :
        ce[c].pc = "done" => IsToolResult(ce[c].result)

C6_Witness ==
    \E r \in DOMAIN req :
        /\ req[r].state = "FAILED"
        /\ req[r].event_creation # None
        /\ ~IsDict(req[r].event_creation)
        /\ ce[r].pc = "done"
        /\ ce[r].failed_events # <<>>

\* The transitions of the state machine of the pipeline.
PipelineTransitions ==
    { <<"NONE", "RECEIVED">>, <<"RECEIVED", "ANALYZING">>,
      <<"ANALYZING", "DONE">>, <<"ANALYZING", "CREATING">>,
      <<"ANALYZING", "FAILED">>, <<"CREATING", "ASSEMBLING">>,
      <<"CREATING", "FAILED">>, <<"ASSEMBLING", "DONE">> }

\* The analysis result the request holds reports success.
AnalysisSucceeded(q) ==
    /\ q.schedule_analysis # None
    /\ IsDict(q.schedule_analysis)
    /\ Get(q.schedule_analysis.val, "success", FALSE)

PipelineStep(r) ==
    /\ req'[r].state # req[r].state =>
            <<req[r].state, req'[r].state>> \in PipelineTransitions
    /\ (req[r].state = "ANALYZING" /\ req'[r].state = "DONE") =>
            Get(req'[r].schedule_analysis.val, "events", <<>>) = <<>>
    /\ (req[r].state = "ANALYZING" /\ req'[r].state = "CREATING") =>
            /\ Get(req'[r].schedule_analysis.val, "events", <<>>) # <<>>
            /\ AnalysisSucceeded(req'[r])
    /\ req[r].state = "FAILED" => req'[r] = req[r]
    /\ req'[r].calls # req[r].calls => req'[r].state \in {"ANALYZING", "CREATING"}

\* C7: a request moves only along RECEIVED -> ANALYZING -> (DONE without
\* events | CREATING with events) -> ASSEMBLING -> DONE; FAILED is entered
\* only from ANALYZING or CREATING and nothing changes or is called after it;
\* the create capability is called only after the analyze capability returned
\* success; the pipeline calls nothing but the Schedule Service.
C7_PipelineStateMachine ==
    /\ [](\A r \in DOMAIN req :
            /\ CallsTo(req[r], "create_events") # {} => AnalysisSucceeded(req[r])
            /\ \A k \in 1..Len(req[r].calls) :
                    req[r].calls[k].target = "schedule-agent")
    /\ [][\A r \in DOMAIN req : PipelineStep(r)]_vars

C7_Witness ==
    \E r \in DOMAIN req :
        /\ req[r].state = "FAILED"
        /\ Len(req[r].calls) = 2
        /\ ce[r].pc = "posting"

\* C8: nothing is retried: a request calls the analyze capability at most
\* once and the create capability at most once, and a run of create_events
\* posts at most once per event of its input, whatever the outcomes.
C8_NoRetry ==
    /\ \A r \in DOMAIN req :
        /\ Cardinality(CallsTo(req[r], "analyze_schedule_image")) <= 1
        /\ Cardinality(CallsTo(req[r], "create_events")) <= 1
    /\ \A c \in DOMAIN ce :
        /\ Len(ce[c].posts) <= Len(ce[c].input)
        /\ \A k \in 1..Len(ce[c].posts) :
                ce[c].posts[k].json["title"] = ce[c].input[k]["title"]

C8_Witness ==
    \E r \in DOMAIN req :
        /\ req[r].state = "FAILED"
        /\ Len(req[r].responses) = 2
        /\ req[r].responses[2].kind = "fault"
        /\ ce[r].pc = "done"
        /\ Len(ce[r].failed_events) = Len(ce[r].input)

\* C9: create_events attempts every event of its input once and in input
\* order, never has two posts in flight, posts event i+1 only after the
\* outcome of event i is classified, and goes on after a failure.
C9_SequentialBestEffort ==
    \A c \in DOMAIN ce :
        /\ ce[c].inflight \in {0, 1}
        /\ Len(ce[c].posts) = (ce[c].i - 1) + ce[c].inflight
        /\ Len(ce[c].created_events) + Len(ce[c].failed_events) = ce[c].i - 1
        /\ \A k \in 1..Len(ce[c].posts) :
                ce[c].posts[k].json = SetItem(ce[c].input[k], "team_id", ce[c].team_id)
        /\ ce[c].pc = "done" =>
                /\ Len(ce[c].posts) = Len(ce[c].input)
                /\ ce[c].inflight = 0

C9_Witness ==
    \E c \in DOMAIN ce :
        /\ ce[c].pc = "done"
        /\ Len(ce[c].input) = 2
        /\ ce[c].input[1] # ce[c].input[2]
        /\ Len(ce[c].failed_events) = 1
        /\ ce[c].failed_events[1].event_data["title"] = ce[c].input[1]["title"]
        /\ Len(ce[c].created_events) = 1

\* C10: for an empty list create_events returns events_created = 0,
\* events_failed = 0, created_events = [] and failed_events = [] and posts
\* nothing to the event-storage API.
C10_EmptyBatch ==
    \A c \in DOMAIN ce :
        (ce[c].pc # "idle" /\ ce[c].input = <<>>) =>
            /\ ce[c].posts = <<>>
            /\ ce[c].pc = "done" =>
                /\ {"events_created", "events_failed", "created_events",
                    "failed_events"} \subseteq DOMAIN ce[c].result
                /\ ce[c].result["events_created"] = 0
                /\ ce[c].result["events_failed"] = 0
                /\ ce[c].result["created_events"] = <<>>
                /\ ce[c].result["failed_events"] = <<>>

C10_Witness ==
    \E c \in DOMAIN ce :
        /\ ce[c].pc = "done"
        /\ ce[c].input = <<>>
        /\ ce[c].team_id = 5


\* C11: when the analysis step succeeds with an empty event list, the
\* creation step is skipped (no create call is made) and the result has
\* success = true, events_found = 0 and events_created = 0.
C11_NoEventsSkipsCreation ==
    \A r \in DOMAIN req :
        (AnalysisSucceeded(req[r])
            /\ Get(req[r].schedule_analysis.val, "events", <<>>) = <<>>) =>
            /\ CallsTo(req[r], "create_events") = {}
            /\ ce[r].pc = "idle"
            /\ req[r].state = "DONE"
            /\ Get(req[r].result, "success", FALSE) = TRUE
            /\ "analysis_results" \in DOMAIN req[r].result
            /\ req[r].result["analysis_results"]["events_found"] = 0
            /\ req[r].result["analysis_results"]["events_created"] = 0

C11_Witness ==
    \E r \in DOMAIN req :
        /\ AnalysisSucceeded(req[r])
        /\ "events" \in DOMAIN req[r].schedule_analysis.val
        /\ req[r].schedule_analysis.val["events"] = <<>>
        /\ req[r].state = "DONE"


\* The decoding of the file of the run raises.
DecodeFails(run) ==
    run.data # None /\ ~b64decode(run.data.file_content, run.interpreter).ok

\* The runs of analyze_schedule_image return what the tool, taken as one
\* function of its input, returns.
AnRunsComputeTheTool ==
    \A a \in DOMAIN an :
        an[a].pc = "done" => an[a].result = analyze_schedule_image(an[a].data, an[a].interpreter)

\* C12: for every uploaded file whose content fails to decode,
\* analyze_schedule_image returns success = false with the decode error and
\* makes no downstream call: the analysis is not reached.
C12_DecodeFailureStopsAnalysis ==
    \A a \in DOMAIN an :
        DecodeFails(an[a]) =>
            /\ an[a].llm_calls = <<>>
            /\ an[a].pc \in {"decode", "done"}
            /\ an[a].pc = "done" =>
                /\ Get(an[a].result, "success", TRUE) = FALSE
                /\ Get(an[a].result, "message", "") = "Failed to decode uploaded file"
                /\ Get(an[a].result, "error", "")
                        \in {IncorrectPadding, NonAsciiError}
                            \cup { InvalidBase64(n) :
                                     n \in 1..Len(an[a].data.file_content) }

C12_Witness ==
    \E a \in DOMAIN an :
        /\ DecodeFails(an[a])
        /\ b64decode(an[a].data.file_content, PadRunEndsScan).ok
        /\ an[a].pc = "done"
        /\ an[a].result["error"] = IncorrectPadding


\* The events of a run that the event-storage API answered with one of the
\* given statuses.
AnsweredWith(run, statuses) ==
    { k \in 1..Len(run.answers) :
        run.answers[k].kind = "http" /\ run.answers[k].status \in statuses }

\* The event-storage API answered event k with a status that is neither 200
\* nor 201.
Rejected(run, k) ==
    run.answers[k].kind = "http" /\ run.answers[k].status \notin {200, 201}

\* The entry of failed_events the claim gives a rejected event.
RejectedEntry(run, k) ==
    [event_data |-> run.events[k],
     error |-> HttpError(run.answers[k].status, run.answers[k].text)]

HasEntry(run, entry) ==
    \E j \in 1..Len(run.failed_events) : run.failed_events[j] = entry

\* C13: an event is created exactly when the event-storage API answers 200
\* or 201; for any other status it goes to failed_events with the error
\* 'HTTP <status>: <body>'.
C13_CreatedIffStatus200Or201 ==
    \A c \in DOMAIN ce :
        /\ Len(ce[c].created_events)
                = Cardinality(AnsweredWith(ce[c], {200, 201}))
        /\ \A k \in 1..Len(ce[c].answers) :
                Rejected(ce[c], k) => HasEntry(ce[c], RejectedEntry(ce[c], k))

\* The part of C13 that the code keeps: an event is created exactly when the
\* answer has status 200 or 201 and a body that decodes, and every other
\* status gives the entry with 'HTTP <status>: <body>'; for two events
\* answered 200 and 500 'DB error' the result is the one of the scenario.
C13_CreatedIffStatusAndBody ==
    \A c \in DOMAIN ce :
        /\ Len(ce[c].created_events)
                = Cardinality({ k \in AnsweredWith(ce[c], {200, 201}) :
                                    ce[c].answers[k].decoded # Undecodable })
        /\ \A k \in 1..Len(ce[c].answers) :
                Rejected(ce[c], k) => HasEntry(ce[c], RejectedEntry(ce[c], k))
        /\ (/\ ce[c].pc = "done"
            /\ Len(ce[c].answers) = 2
            /\ ce[c].answers[1] \in
                    { Http(200, "{...}", JObject(SetItem(ce[c].events[1], "id", 1))) }
            /\ ce[c].answers[2] = Http(500, "DB error", Undecodable)) =>
                /\ ce[c].result["events_created"] = 1
                /\ ce[c].result["events_failed"] = 1
                /\ ce[c].result["failed_events"] =
                        << [event_data |-> SetItem(ce[c].input[2], "team_id", ce[c].team_id),
                            error |-> "HTTP 500: DB error"] >>


\* The result process_schedule_photo returns for a request with the given
\* input when its downstream calls are answered with the given responses.
ResultOf(data, responses) ==
    LET analysed == AnalyzeReturnStep([ReqIdle EXCEPT !.data = data],
                        call_schedule_agent_analyze_image(responses[1]))
    IN  IF analysed.state # "CREATING" THEN analysed.result
        ELSE LET created == CreateReturnStep(analysed,
                                call_schedule_agent_create_events(responses[2]))
             IN  IF created.state = "FAILED" THEN created.result
                 ELSE SuccessResult(data, analysed.events, created.event_creation.val)

\* The response is the result of a run of create_events.
FromCreateEvents(response) ==
    /\ response.kind = "http"
    /\ response.status = 200
    /\ IsDict(response.decoded)
    /\ "events_failed" \in DOMAIN response.decoded.val

\* What request r has of its own: its result is the one its own input and the
\* answers to its own calls give, and the run of create_events that answered
\* it is the one that served its own create call.
OwnResult(r) ==
    /\ req[r].result # None =>
        /\ req[r].state \in {"DONE", "FAILED"}
        /\ req[r].result = ResultOf(req[r].data, req[r].responses)
        /\ Get(req[r].result, "team_id", 0) = req[r].data.team_id
    /\ ce[r].pc # "idle" =>
        /\ ce[r].team_id = req[r].data.team_id
        /\ ce[r].input = req[r].events
    /\ (Len(req[r].responses) = 2 /\ FromCreateEvents(req[r].responses[2])) =>
        /\ ce[r].pc = "done"
        /\ req[r].responses[2].decoded.val = ce[r].result

\* A step leaves a returned result as it is, and changes the state of at most
\* one request.
OneResultStep ==
    /\ \A r \in DOMAIN req : req[r].result # None => req'[r] = req[r]
    /\ \A r1, r2 \in DOMAIN req :
        (r1 # r2 /\ (req'[r1] # req[r1] \/ ce'[r1] # ce[r1])) =>
            (req'[r2] = req[r2] /\ ce'[r2] = ce[r2])

\* C14: under any interleaving of concurrent requests, each request that has
\* arrived eventually returns, returns one result that never changes, and
\* that result is determined by its own input and the outcomes of its own
\* downstream calls, whatever the other requests do.
C14_RequestsDoNotInterfere ==
    /\ [](\A r \in DOMAIN req : OwnResult(r))
    /\ [][OneResultStep]_vars
    /\ \A r \in ConcReqs :
        (req[r].state = "RECEIVED") ~> (req[r].result # None)

C14_Witness ==
    /\ req[1].state = "FAILED"
    /\ req[2].state = "DONE"
    /\ Len(req[2].responses) = 2
    /\ FromCreateEvents(req[2].responses[2])
    /\ Len(req[1].responses) = 2


\* C15: whenever the liveness endpoint of one of the three services is
\* probed, in any state, the answer is the body {status: "healthy",
\* service: <the name of that service>}.
C15_EveryServiceAnswersHealthy ==
    health # None =>
        health.response = [status |-> "healthy", service |-> health.service]

\* Holds: the Attendance service answers the fixed body in every state.
C15_AttendanceAnswersHealthy ==
    (health # None /\ health.service = "attendance-agent") =>
        health.response = [status |-> "healthy", service |-> "attendance-agent"]


\* The error the analysis step reported for the request: the error string
\* of the delegation client for a transport fault or a status other than
\* 200, the error of the Schedule Service otherwise.
UpstreamError(q) ==
    LET response == q.responses[1]
    IN  IF response.kind = "fault" THEN response.desc
        ELSE IF response.status # ClientSuccessStatus
             THEN HttpError(response.status, response.text)
        ELSE q.schedule_analysis.val.error

\* C16: every failure result of process_schedule_photo carries the team id
\* of the request, and when the analysis step failed and reported an error,
\* the result carries that error.
C16_FailureCarriesTeamAndError ==
    \A r \in DOMAIN req :
        req[r].state = "FAILED" =>
            /\ "team_id" \in DOMAIN req[r].result
            /\ req[r].result.team_id = req[r].data.team_id
            /\ (/\ AnalysisStepFailed(req[r])
                /\ IsDict(req[r].schedule_analysis)
                /\ "error" \in DOMAIN req[r].schedule_analysis.val) =>
                   /\ "error" \in DOMAIN req[r].result
                   /\ req[r].result.error = UpstreamError(req[r])

C16_Witness ==
    \E r \in DOMAIN req :
        /\ req[r].state = "FAILED"
        /\ AnalysisStepFailed(req[r])
        /\ req[r].responses[1].kind = "http"
        /\ req[r].responses[1].status = 500
        /\ Get(req[r].result, "error", "") = "HTTP 500: " \o req[r].responses[1].text


\* C17: every POST a run of create_events sends to the event-storage API
\* carries the team id of the run's request, in the payload and in the team
\* segment of the address, whatever team id the event carried; the other
\* fields of the event are sent as received, and a finished run has posted
\* every event of its batch.
C17_PostsCarryRequestTeam ==
    \A c \in DOMAIN ce :
        /\ Len(ce[c].posts) <= Len(ce[c].input)
        /\ ce[c].pc = "done" => Len(ce[c].posts) = Len(ce[c].input)
        /\ \A k \in 1..Len(ce[c].posts) :
            /\ ce[c].posts[k].team = ce[c].team_id
            /\ "team_id" \in DOMAIN ce[c].posts[k].json
            /\ ce[c].posts[k].json["team_id"] = ce[c].team_id
            /\ DOMAIN ce[c].posts[k].json = DOMAIN ce[c].input[k] \cup {"team_id"}
            /\ \A key \in DOMAIN ce[c].input[k] \ {"team_id"} :
                ce[c].posts[k].json[key] = ce[c].input[k][key]

C17_Witness ==
    \E c \in DOMAIN ce :
        /\ ce[c].pc = "done"
        /\ Len(ce[c].posts) = 2
        /\ "team_id" \in DOMAIN ce[c].input[2]
        /\ ce[c].input[2]["team_id"] # ce[c].team_id
        /\ ce[c].posts[2].json["team_id"] = ce[c].team_id
        /\ "team_id" \notin DOMAIN ce[c].input[1]


\* The events list the analysis step returned for the request.
AnalysedEvents(q) ==
    IF IsDict(q.schedule_analysis)
    THEN Get(q.schedule_analysis.val, "events", <<>>)
    ELSE <<>>

\* C18: the events list sent in the create call, and received by the run of
\* create_events serving it, is the list the analysis step returned, element
\* for element and in the same order; a result that reports parsed_events
\* reports that same list, and a successful result has events_found equal
\* to its length.
C18_AnalysisOutputForwardedUnchanged ==
    \A r \in DOMAIN req :
        /\ \A k \in CallsTo(req[r], "create_events") :
            /\ req[r].calls[k].json.events = AnalysedEvents(req[r])
            /\ req[r].calls[k].json.team_id = req[r].data.team_id
        /\ ce[r].pc # "idle" => ce[r].input = AnalysedEvents(req[r])
        /\ (req[r].result # None /\ "parsed_events" \in DOMAIN req[r].result) =>
            req[r].result.parsed_events = AnalysedEvents(req[r])
        /\ req[r].state = "DONE" =>
            /\ "parsed_events" \in DOMAIN req[r].result
            /\ req[r].result.analysis_results.events_found
                    = Len(AnalysedEvents(req[r]))

C18_Witness ==
    \E r \in DOMAIN req :
        /\ req[r].state = "DONE"
        /\ CallsTo(req[r], "create_events") # {}
        /\ Len(AnalysedEvents(req[r])) = 2
        /\ AnalysedEvents(req[r])[1] # AnalysedEvents(req[r])[2]
        /\ req[r].result.parsed_events = AnalysedEvents(req[r])
        /\ ce[r].pc = "done"


\* The records the event-storage API created, in the order of the events
\* they answer: answers[k] is the answer to the k-th event of the batch.
RECURSIVE CreatedInOrder(_)
CreatedInOrder(answers) ==
    IF answers = <<>> THEN <<>>
    ELSE LET result == call_laravel_create_event(answers[Len(answers)])
             before == CreatedInOrder(SubSeq(answers, 1, Len(answers) - 1))
         IN  IF Get(result, "success", FALSE)
             THEN Append(before, Get(result, "event", None))
             ELSE before

\* The request is done and its create call was answered by the run of
\* create_events that served it.
ComposedDone(r) ==
    /\ req[r].state = "DONE"
    /\ ce[r].pc = "done"
    /\ req[r].event_creation = JObject(ce[r].result)

\* C19: when the Coordinator's create call is answered by create_events, a
\* successful orchestration result has 0 <= events_created <= events_found,
\* events_created counts the created records, and created_events lists the
\* created records in the order in which their events stood in the batch.
C19_CreatedWithinFoundAndInOrder ==
    \A r \in DOMAIN req :
        /\ ComposedDone(r) =>
            /\ req[r].result.success
            /\ req[r].result.analysis_results.events_created >= 0
            /\ req[r].result.analysis_results.events_created
                    <= req[r].result.analysis_results.events_found
            /\ req[r].result.analysis_results.events_created
                    = Len(ce[r].result.created_events)
            /\ Len(ce[r].answers) = req[r].result.analysis_results.events_found
            /\ ce[r].result.created_events = CreatedInOrder(ce[r].answers)
        /\ (req[r].state = "DONE" /\ CallsTo(req[r], "create_events") = {}) =>
            /\ req[r].result.analysis_results.events_created = 0
            /\ req[r].result.analysis_results.events_found = 0

C19_Witness ==
    \E r \in DOMAIN req :
        /\ ComposedDone(r)
        /\ req[r].result.analysis_results.events_created = 2
        /\ ce[r].result.created_events[1] # ce[r].result.created_events[2]
        /\ ce[r].result.created_events[1].val.title = ce[r].input[1].title
        /\ ce[r].result.created_events[2].val.title = ce[r].input[2].title


\* The run is done with a batch of at least one event, and the
\* event-storage API rejected every event or was unreachable for it.
AllRefused(run) ==
    /\ run.pc = "done"
    /\ Len(run.input) >= 1
    /\ Len(run.answers) = Len(run.input)
    /\ \A k \in 1..Len(run.answers) :
        run.answers[k].kind = "fault" \/ Rejected(run, k)

\* C20: create_events reports success = true whenever its loop completes;
\* when every one of its N >= 1 events is rejected or meets an unreachable
\* API it returns events_created = 0 and events_failed = N, and the request
\* of process_schedule_photo it answers goes on to a result with success =
\* true, events_found = N and events_created = 0.
C20_AllFailedIsStillSuccess ==
    /\ \A c \in DOMAIN ce :
        ce[c].pc = "done" =>
            /\ ce[c].result.success = TRUE
            /\ AllRefused(ce[c]) =>
                /\ ce[c].result.events_created = 0
                /\ ce[c].result.events_failed = Len(ce[c].input)
    /\ \A r \in DOMAIN req :
        (AllRefused(ce[r]) /\ req[r].event_creation = JObject(ce[r].result)) =>
            /\ req[r].state \in {"ASSEMBLING", "DONE"}
            /\ req[r].state = "DONE" =>
                /\ req[r].result.success = TRUE
                /\ req[r].result.analysis_results.events_found = Len(ce[r].input)
                /\ req[r].result.analysis_results.events_created = 0

C20_Witness ==
    \E r \in DOMAIN req :
        /\ AllRefused(ce[r])
        /\ ComposedDone(r)
        /\ Len(ce[r].input) = 2
        /\ ce[r].answers[1].kind = "fault"
        /\ Rejected(ce[r], 2)
        /\ req[r].result.success = TRUE
        /\ req[r].result.analysis_results.events_created = 0

====
